---- MODULE Spec2Model ----
(***************************************************************************)
(* The live audio session of components/LiveSession.tsx as a state machine *)
(* of its event handlers: startSession (split at its await), the transport *)
(* callbacks onopen / onmessage / onclose / onerror, source.onended, the   *)
(* start/stop button and the unmount effect.  Every handler is one atomic  *)
(* action: the handlers run on one cooperative thread and contain no await *)
(* apart from the getUserMedia await inside startSession.                  *)
(*                                                                         *)
(* Time is integer ticks.  Every startSession creates its own AudioContext *)
(* whose currentTime starts at 0, so the clock a handler reads is the real *)
(* time minus the creation time of the context its closure captured.       *)
(* Session k owns context k, device stream k and capture pipeline k (input *)
(* source k + processor k); the refs hold a session number, 0 for null.    *)
(***************************************************************************)
EXTENDS Integers, Sequences, FiniteSets, TLC

\* ------------------------------------------------------------------ bounds
\* Concurrent runs: the button can start a second session while the first
\* is still open or being opened.
MaxSessions == 2
MaxTime == 1
MaxUnits == 2
MaxDur == 1
\* The playback specification leaves out the teardown events other than the
\* stop button and runs longer.
MaxTimePlay == 3
MaxUnitsPlay == 2
MaxDurPlay == 2
\* Runs of a single session.
MaxSessionsSolo == 1
MaxTimeSolo == 1
MaxUnitsSolo == 1
MaxUnitsSoloPlay == 2
MaxUnitsSoloSeq == 3
MaxDurSoloSeq == 2
MaxDurSolo == 1
\* Captured frames.
MaxFrames == 2
MaxFramesSolo == 2
\* Samples given to the encoder range over [-MaxSample, MaxSample].
MaxSample == 2
\* Byte arrays given to the decoder and to the WAV writer, and their
\* channel counts.
MaxPcmBytes == 8
MaxWavBytes == 3
MaxChannels == 2
\* The Visualizer: source nodes it can be given, frames it renders.
MaxSources == 2
MaxRaf == 3
\* The text-to-speech player: clicks on its generate button.
MaxGenerate == 3

Sessions == 1..MaxSessions
NULL == 0

VARIABLES
  mounted,            \* the component is mounted (its button can be clicked)
  isRecording,        \* useState isRecording
  status,             \* useState status
  notification,       \* useState notification: the message shown last
  audioContextRef,    \* session whose output context the ref holds, or NULL
  outputAnalyserNodeRef, \* session whose output gain node the ref holds
  mediaStreamRef,     \* session whose device stream the ref holds, or NULL
  inputSourceRef,     \* session whose input source node the ref holds, or NULL
  processorRef,       \* session whose script processor the ref holds, or NULL
  sessionPromiseRef,  \* session whose connect() promise the ref holds, or NULL
  nextStartTime,      \* nextStartTimeRef: the timeline cursor
  activeSources,      \* activeSourcesRef: the buffer sources in the set
  playing,            \* ids of the sources started and neither ended nor stopped
  clock,              \* real time
  nSessions,          \* number of startSession calls so far
  sess,               \* per session: where its startSession / transport stands
  ctxCreated,         \* per session: real time at which its context was created
  trackStops,         \* per session: track.stop() calls on its device stream
  procDisconnects,    \* per session: disconnect() calls on its processor
  srcDisconnects,     \* per session: disconnect() calls on its input source
  ctxCloses,          \* per session: close() calls on its audio contexts
  pipelines,          \* sessions whose onopen has built a capture pipeline
  nFrames,            \* number of onaudioprocess calls so far
  chunk,              \* what became of the frame captured last
  sendErrors,         \* "Session send error" lines logged (capped at 2)
  nScheduled,         \* number of source.start(scheduleTime) calls so far
  last,               \* the source scheduled last, or NoUnit
  pend,               \* cursor resets and failed chunks since the last
                      \* schedule operation
  cleanupRun,         \* consecutive cleanup() calls that ran last (capped at 2)
  call,               \* the call of an audioUtils function made last
  visProps,           \* Visualizer: the props of its last render, or NoProps
  visDeps,            \* Visualizer: the props its effect ran with last
  analyserRef,        \* Visualizer: the node its connected analyser taps
  rafIdRef,           \* Visualizer: rafIdRef.current
  rafPending,         \* animation frames requested, not yet run or cancelled
  nRaf,               \* number of frames draw() has rendered so far
  canvas,             \* what the Visualizer's canvas shows
  ttsIsLoading,       \* TextToSpeech: useState isLoading
  ttsIsPlaying,       \* TextToSpeech: useState isPlaying
  ttsContext,         \* TextToSpeech: state of the context in audioContextRef
  sourceNodeRef,      \* TextToSpeech: the source the ref holds, or NULL
  ttsCalls,           \* per handleGenerateAndPlay call: where it stands
  nGenerate,          \* number of handleGenerateAndPlay calls so far
  nSources,           \* TextToSpeech: number of sources started so far
  ttsPlaying,         \* TextToSpeech: sources started, not ended or stopped
  ttsEnded            \* TextToSpeech: sources whose ended event is queued

outVars == <<audioContextRef, outputAnalyserNodeRef>>
refVars == <<outVars, mediaStreamRef, inputSourceRef, processorRef,
             sessionPromiseRef, nextStartTime, activeSources>>
uiVars == <<mounted, isRecording, status, notification>>
envVars == <<clock, nSessions, sess, ctxCreated>>
resVars == <<trackStops, procDisconnects, srcDisconnects, ctxCloses, pipelines>>
capVars == <<nFrames, chunk, sendErrors>>
histVars == <<nScheduled, last, pend, cleanupRun>>
utilVars == <<call>>
visVars == <<visProps, visDeps, analyserRef, rafIdRef, rafPending, nRaf,
             canvas>>
ttsVars == <<ttsIsLoading, ttsIsPlaying, ttsContext, sourceNodeRef, ttsCalls,
             nGenerate, nSources, ttsPlaying, ttsEnded>>
otherVars == <<utilVars, visVars, ttsVars>>
vars == <<uiVars, refVars, playing, envVars, resVars, capVars, histVars,
         otherVars>>

Max(a, b) == IF a >= b THEN a ELSE b

\* A buffer source: its identity, the session whose context plays it, the
\* time (of that context) it was started at, its buffer's duration, and which
\* cursor resets (interruption, startSession) and whether a chunk that threw
\* preceded it since the source scheduled before it.
Unit(id, s, t, d, p) ==
  [id |-> id, ses |-> s, start |-> t, dur |-> d,
   intr |-> p.intr, restart |-> p.restart, failed |-> p.failed]
NoUnit == [id |-> 0, ses |-> NULL, start |-> 0, dur |-> 0,
           intr |-> FALSE, restart |-> FALSE, failed |-> FALSE]
NoPend == [intr |-> FALSE, restart |-> FALSE, failed |-> FALSE]

\* The inline data of a message: none (no inlineData, or an empty string), a
\* string atob rejects, or base64 text of n bytes of PCM.
Chunk(kind, n) == [kind |-> kind, bytes |-> n]
NoChunk == Chunk("none", 0)
Garbage == Chunk("garbage", 0)
Pcm(n) == Chunk("pcm", n)
\* The chunk of d whole 16-bit frames.
Audio(d) == Pcm(2 * d)
Chunks(maxDur) == {NoChunk, Garbage} \cup {Pcm(n) : n \in 1..(2 * maxDur + 1)}
\* The well-formed ones among them: whole frames, at least one.
WholeChunks(maxDur) == {NoChunk} \cup {Audio(d) : d \in 1..maxDur}

\* The text of an error (e.message || e.toString()), as far as the code
\* looks at it: which of the three phrases it contains.
ErrorText(has429, hasQuota, hasExhausted) ==
  [has429 |-> has429, hasQuota |-> hasQuota, hasExhausted |-> hasExhausted]
ErrorTexts ==
  {ErrorText(a, b, c) : a \in BOOLEAN, b \in BOOLEAN, c \in BOOLEAN}
\* One text with none of the phrases and one with "429".
PlainTexts == {ErrorText(FALSE, FALSE, FALSE), ErrorText(TRUE, FALSE, FALSE)}

\* onerror: includes('429') || includes('quota') ||
\* includes('Resource has been exhausted') picks the quota message.
OnErrorMessage(e) ==
  IF e.has429 \/ e.hasQuota \/ e.hasExhausted THEN "liveQuota"
  ELSE "liveError"

\* catch of startSession: includes('429') || includes('quota') picks the
\* quota message.
CatchMessage(e) ==
  IF e.has429 \/ e.hasQuota THEN "startQuota" ELSE "startError"

\* No frame has been captured yet.
NoFrame == [of |-> NULL, to |-> NULL, fate |-> "none"]

\* ctx.currentTime of the output context that session s's closures captured.
CurrentTime(s) == clock - ctxCreated[s]

\* The LiveSession component after its first render.
LiveSessionInit ==
  /\ mounted = TRUE
  /\ isRecording = FALSE
  /\ status = "ready"
  /\ notification = "none"
  /\ audioContextRef = NULL
  /\ outputAnalyserNodeRef = NULL
  /\ mediaStreamRef = NULL
  /\ inputSourceRef = NULL
  /\ processorRef = NULL
  /\ sessionPromiseRef = NULL
  /\ nextStartTime = 0
  /\ activeSources = {}
  /\ playing = {}
  /\ clock = 0
  /\ nSessions = 0
  /\ sess = [s \in Sessions |-> "unused"]
  /\ ctxCreated = [s \in Sessions |-> 0]
  /\ trackStops = [s \in Sessions |-> 0]
  /\ procDisconnects = [s \in Sessions |-> 0]
  /\ srcDisconnects = [s \in Sessions |-> 0]
  /\ ctxCloses = [s \in Sessions |-> 0]
  /\ pipelines = {}
  /\ nFrames = 0
  /\ chunk = NoFrame
  /\ sendErrors = 0
  /\ nScheduled = 0
  /\ last = NoUnit
  /\ pend = NoPend
  /\ cleanupRun = 0

\* No audioUtils function has been called yet.
NoCall == [fn |-> "none", arg |-> <<>>, done |-> TRUE, result |-> <<>>]

\* The Visualizer is not rendered: it has no props, and no effect has run.
NoProps ==
  [rendered |-> FALSE, isActive |-> FALSE, audioContext |-> NULL,
   sourceNode |-> NULL]

\* No Visualizer is rendered yet.
VisualizerInit ==
  /\ visProps = NoProps
  /\ visDeps = NoProps
  /\ analyserRef = NULL
  /\ rafIdRef = NULL
  /\ rafPending = {}
  /\ nRaf = 0
  /\ canvas = "none"

\* The TextToSpeech component after its first render.
TextToSpeechInit ==
  /\ ttsIsLoading = FALSE
  /\ ttsIsPlaying = FALSE
  /\ ttsContext = "none"
  /\ sourceNodeRef = NULL
  /\ ttsCalls = [k \in 1..MaxGenerate |-> "unused"]
  /\ nGenerate = 0
  /\ nSources = 0
  /\ ttsPlaying = {}
  /\ ttsEnded = {}

Init ==
  /\ LiveSessionInit
  /\ call = NoCall
  /\ VisualizerInit
  /\ TextToSpeechInit

\* ----------------------------------------------------------------- cleanup
\* The part of the state cleanup() reads and writes.
RefState ==
  [active |-> activeSources, playing |-> playing,
   stream |-> mediaStreamRef, trackStops |-> trackStops,
   proc |-> processorRef, procDisc |-> procDisconnects,
   src |-> inputSourceRef, srcDisc |-> srcDisconnects,
   session |-> sessionPromiseRef, rec |-> isRecording, status |-> status]

Ids(units) == {u.id : u \in units}

\* A plausible bug: the device tracks are stopped but the ref is not nulled.
CleanupKeepsStreamRef(r) ==
  [active |-> {}, playing |-> r.playing \ Ids(r.active),
   stream |-> r.stream,
   trackStops |-> IF r.stream # NULL
                  THEN [r.trackStops EXCEPT ![r.stream] = @ + 1]
                  ELSE r.trackStops,
   proc |-> NULL,
   procDisc |-> IF r.proc # NULL
                THEN [r.procDisc EXCEPT ![r.proc] = @ + 1]
                ELSE r.procDisc,
   src |-> NULL,
   srcDisc |-> IF r.src # NULL
               THEN [r.srcDisc EXCEPT ![r.src] = @ + 1]
               ELSE r.srcDisc,
   session |-> NULL, rec |-> FALSE, status |-> "ready"]

\* A plausible bug: cleanup leaves the status its callers set before it
\* (disconnected) instead of ready.
CleanupOfDisconnected(r) ==
  [active |-> {}, playing |-> r.playing \ Ids(r.active),
   stream |-> NULL,
   trackStops |-> IF r.stream # NULL
                  THEN [r.trackStops EXCEPT ![r.stream] = @ + 1]
                  ELSE r.trackStops,
   proc |-> NULL,
   procDisc |-> IF r.proc # NULL
                THEN [r.procDisc EXCEPT ![r.proc] = @ + 1]
                ELSE r.procDisc,
   src |-> NULL,
   srcDisc |-> IF r.src # NULL
               THEN [r.srcDisc EXCEPT ![r.src] = @ + 1]
               ELSE r.srcDisc,
   session |-> NULL, rec |-> FALSE, status |-> "disconnected"]

\* cleanup(): stop() and clear every active source; stop the tracks of the
\* stream the ref holds and null the ref; disconnect the processor and the
\* input source the refs hold and null them; drop the session promise;
\* setIsRecording(false); setStatus(ready).
CleanupOf(r) ==
  [active |-> {}, playing |-> r.playing \ Ids(r.active),
   stream |-> NULL,
   trackStops |-> IF r.stream # NULL
                  THEN [r.trackStops EXCEPT ![r.stream] = @ + 1]
                  ELSE r.trackStops,
   proc |-> NULL,
   procDisc |-> IF r.proc # NULL
                THEN [r.procDisc EXCEPT ![r.proc] = @ + 1]
                ELSE r.procDisc,
   src |-> NULL,
   srcDisc |-> IF r.src # NULL
               THEN [r.srcDisc EXCEPT ![r.src] = @ + 1]
               ELSE r.srcDisc,
   session |-> NULL, rec |-> FALSE, status |-> "ready"]

\* The state after cleanup() has run on the current state.
cleanup ==
  LET r == CleanupOf(RefState) IN
  /\ activeSources' = r.active
  /\ playing' = r.playing
  /\ mediaStreamRef' = r.stream
  /\ trackStops' = r.trackStops
  /\ processorRef' = r.proc
  /\ procDisconnects' = r.procDisc
  /\ inputSourceRef' = r.src
  /\ srcDisconnects' = r.srcDisc
  /\ sessionPromiseRef' = r.session
  /\ isRecording' = r.rec
  /\ status' = r.status
  /\ cleanupRun' = IF cleanupRun < 2 THEN cleanupRun + 1 ELSE 2
  /\ UNCHANGED ctxCloses

\* --------------------------------------------------------- startSession
\* The button runs startSession when isRecording is false.  The synchronous
\* part up to the getUserMedia await: a fresh output context (currentTime 0)
\* is created and stored, and the cursor is set to its currentTime.
StartSession ==
  /\ mounted
  /\ ~isRecording
  /\ nSessions < MaxSessions
  /\ LET s == nSessions + 1 IN
     /\ nSessions' = s
     /\ status' = "initAudio"
     /\ audioContextRef' = s
     /\ outputAnalyserNodeRef' = s
     /\ ctxCreated' = [ctxCreated EXCEPT ![s] = clock]
     /\ nextStartTime' = clock - ctxCreated'[s]
     /\ sess' = [sess EXCEPT ![s] = "awaitingMic"]
     /\ pend' = [pend EXCEPT !.restart = TRUE]
  /\ cleanupRun' = 0
  /\ UNCHANGED <<mounted, isRecording, mediaStreamRef, inputSourceRef,
                 processorRef, sessionPromiseRef, activeSources, playing,
                 clock, resVars, nScheduled, last, notification, capVars,
                 otherVars>>

\* getUserMedia resolves: the stream is stored, the status set, and
\* ai.live.connect is called (not awaited); its promise is stored.
MicGranted(s) ==
  /\ sess[s] = "awaitingMic"
  /\ mediaStreamRef' = s
  /\ status' = "connecting"
  /\ sessionPromiseRef' = s
  /\ sess' = [sess EXCEPT ![s] = "connecting"]
  /\ cleanupRun' = 0
  /\ UNCHANGED <<mounted, isRecording, outVars, inputSourceRef,
                 processorRef, nextStartTime, activeSources, playing, clock,
                 nSessions, ctxCreated, resVars, nScheduled, last, pend, notification, capVars,
                 otherVars>>

\* getUserMedia rejects with an error of text e: the catch block classifies
\* the text, notifies and runs cleanup().
MicDenied(s, e) ==
  /\ sess[s] = "awaitingMic"
  /\ notification' = CatchMessage(e)
  /\ cleanup
  /\ sess' = [sess EXCEPT ![s] = "denied"]
  /\ UNCHANGED <<mounted, outVars, nextStartTime, clock, nSessions,
                 ctxCreated, pipelines, nScheduled, last, pend, capVars,
                 otherVars>>

\* ------------------------------------------------------ transport callbacks
\* onopen: status, isRecording, then the capture pipeline of this session is
\* built from the stream its closure captured and stored in the refs.
OnOpen(s) ==
  /\ sess[s] = "connecting"
  /\ status' = "connected"
  /\ isRecording' = TRUE
  /\ notification' = "connected"
  /\ inputSourceRef' = s
  /\ processorRef' = s
  /\ pipelines' = pipelines \cup {s}
  /\ sess' = [sess EXCEPT ![s] = "open"]
  /\ cleanupRun' = 0
  /\ UNCHANGED <<mounted, outVars, mediaStreamRef, sessionPromiseRef,
                 nextStartTime, activeSources, playing, clock, nSessions,
                 ctxCreated, trackStops, procDisconnects, srcDisconnects,
                 nScheduled, last, pend, ctxCloses, capVars,
                 otherVars>>

\* The part of the state the onmessage handler reads and writes.
PlayState ==
  [active |-> activeSources, playing |-> playing, cursor |-> nextStartTime,
   status |-> status, n |-> nScheduled, last |-> last, pend |-> pend]

\* A plausible bug: the sources are stopped and cleared, the cursor is kept.
InterruptedKeepsCursor(p, now) ==
  [p EXCEPT !.status = "interrupted",
            !.playing = @ \ Ids(p.active),
            !.active = {},
            !.pend = [@ EXCEPT !.intr = TRUE]]

\* A plausible bug: only the sources still playing are stopped and removed.
InterruptedStopsPlaying(p, now) ==
  [p EXCEPT !.status = "interrupted",
            !.playing = @ \ Ids(p.active),
            !.active = {u \in @ : u.id \notin p.playing},
            !.cursor = now,
            !.pend = [@ EXCEPT !.intr = TRUE]]

\* onmessage, interrupted branch: setStatus, stop() every active source,
\* clear the set, cursor := ctx.currentTime.
Interrupted(p, now) ==
  [p EXCEPT !.status = "interrupted",
            !.playing = @ \ Ids(p.active),
            !.active = {},
            !.cursor = now,
            !.pend = [@ EXCEPT !.intr = TRUE]]

\* A plausible bug: the clock is ignored, the source starts at the cursor.
ScheduleAtCursor(cursor, now) == cursor

\* scheduleTime = Math.max(nextStartTimeRef.current, ctx.currentTime)
ScheduleTime(cursor, now) == Max(cursor, now)

\* A plausible bug: the cursor advances from the clock, not from scheduleTime.
ScheduledCursorFromClock(p, s, now, d) ==
  LET u == Unit(p.n + 1, s, ScheduleTime(p.cursor, now), d, p.pend) IN
  [p EXCEPT !.cursor = now + d,
            !.active = @ \cup {u},
            !.playing = @ \cup {u.id},
            !.n = u.id,
            !.last = u,
            !.pend = NoPend]

\* onmessage, audio branch from source.start on, for a buffer of duration d
\* in the handler of session s: source.start(scheduleTime); cursor :=
\* scheduleTime + duration; the source joins the active set.
Scheduled(p, s, now, d) ==
  LET u == Unit(p.n + 1, s, ScheduleTime(p.cursor, now), d, p.pend) IN
  [p EXCEPT !.cursor = u.start + d,
            !.active = @ \cup {u},
            !.playing = @ \cup {u.id},
            !.n = u.id,
            !.last = u,
            !.pend = NoPend]

\* pcmToAudioBuffer: new Int16Array(buffer, byteOffset, byteLength / 2) takes
\* the integer part of its length, and frameCount is that length (one channel).
FrameCount(n) == n \div 2

\* base64ToUint8Array returns (atob accepts the text) and ctx.createBuffer
\* accepts the frame count (it throws on a length of 0).
Decodes(c) == c.kind = "pcm" /\ FrameCount(c.bytes) >= 1

\* source.connect(outputAnalyserNodeRef.current) returns: the source is a
\* node of the context of session s, and connect throws when the node the ref
\* holds belongs to another context.
Connects(s, out) == out = s

\* A plausible bug: the chunk that throws has already moved the cursor.
DroppedResetsCursor(p, now) ==
  [p EXCEPT !.cursor = now, !.pend = [@ EXCEPT !.failed = TRUE]]

\* onmessage, audio branch, when decoding or connecting throws: the async
\* handler ends there (its promise rejects), before source.start.
Dropped(p, now) == [p EXCEPT !.pend = [@ EXCEPT !.failed = TRUE]]

\* onmessage, audio branch, on chunk c in the handler of session s, with the
\* output node of session out in the ref.
AudioBranch(p, s, now, c, out) ==
  IF c.kind = "none" THEN p
  ELSE IF Decodes(c) /\ Connects(s, out)
       THEN Scheduled(p, s, now, FrameCount(c.bytes))
       ELSE Dropped(p, now)

\* A plausible bug: the audio is handled first and the interruption second.
HandleMessageAudioFirst(p, s, now, intr, c, out) ==
  LET q == AudioBranch(p, s, now, c, out)
  IN IF intr THEN Interrupted(q, now) ELSE q

\* The whole onmessage handler on a message with serverContent.interrupted =
\* intr and inline data c.
HandleMessage(p, s, now, intr, c, out) ==
  AudioBranch(IF intr THEN Interrupted(p, now) ELSE p, s, now, c, out)

\* onmessage of session s.  The transport delivers messages while it is open;
\* cleanup() does not close it.
OnMessage(s, intr, c) ==
  /\ sess[s] = "open"
  /\ intr \/ c.kind # "none"
  /\ LET p == HandleMessage(PlayState, s, CurrentTime(s), intr, c,
                            outputAnalyserNodeRef) IN
     /\ activeSources' = p.active
     /\ playing' = p.playing
     /\ nextStartTime' = p.cursor
     /\ status' = p.status
     /\ nScheduled' = p.n
     /\ last' = p.last
     /\ pend' = p.pend
  /\ cleanupRun' = 0
  /\ UNCHANGED <<mounted, isRecording, outVars, mediaStreamRef,
                 inputSourceRef, processorRef, sessionPromiseRef, envVars,
                 resVars, notification, capVars,
                 otherVars>>

\* A source has played to its end: it stops playing and its onended handler
\* deletes it from the active set.
OnEnded(u) ==
  /\ u \in activeSources
  /\ u.id \in playing
  /\ CurrentTime(u.ses) >= u.start + u.dur
  /\ activeSources' = activeSources \ {u}
  /\ playing' = playing \ {u.id}
  /\ cleanupRun' = 0
  /\ UNCHANGED <<uiVars, outVars, mediaStreamRef, inputSourceRef,
                 processorRef, sessionPromiseRef, nextStartTime, envVars,
                 resVars, nScheduled, last, pend, capVars,
                 otherVars>>

\* A source has played to its end; its ended event is not delivered yet, so
\* the source is still in the active set.
PlayedOut(u) ==
  /\ u \in activeSources
  /\ u.id \in playing
  /\ CurrentTime(u.ses) >= u.start + u.dur
  /\ playing' = playing \ {u.id}
  /\ cleanupRun' = 0
  /\ UNCHANGED <<uiVars, refVars, envVars, resVars, nScheduled, last, pend,
                 capVars, otherVars>>

\* A plausible bug: the handler clears the set.
DeletedAll(active, id) == {}

\* activeSourcesRef.current.delete(source), for the source of identity id.
Deleted(active, id) == {v \in active : v.id # id}

\* source.onended of the source of identity id, which has played out or was
\* stopped by stop().  Which events were delivered is not recorded: the event
\* of a source that left the set can be delivered again.
OnEndedEvent(id) ==
  /\ id \in 1..nScheduled
  /\ id \notin playing
  /\ activeSources' = Deleted(activeSources, id)
  /\ cleanupRun' = 0
  /\ UNCHANGED <<uiVars, outVars, mediaStreamRef, inputSourceRef,
                 processorRef, sessionPromiseRef, nextStartTime, playing,
                 envVars, resVars, nScheduled, last, pend, capVars,
                 otherVars>>

\* onclose: setStatus(disconnected), then cleanup() (which sets the status).
OnClose(s) ==
  /\ sess[s] \in {"connecting", "open", "errored"}
  /\ cleanup
  /\ sess' = [sess EXCEPT ![s] = "closed"]
  /\ UNCHANGED <<mounted, outVars, nextStartTime, clock, nSessions,
                 ctxCreated, pipelines, nScheduled, last, pend, notification, capVars,
                 otherVars>>

\* onerror with an error of text e: classify the text and notify, then
\* cleanup().
OnError(s, e) ==
  /\ sess[s] \in {"connecting", "open"}
  /\ notification' = OnErrorMessage(e)
  /\ cleanup
  /\ sess' = [sess EXCEPT ![s] = "errored"]
  /\ UNCHANGED <<mounted, outVars, nextStartTime, clock, nSessions,
                 ctxCreated, pipelines, nScheduled, last, pend, capVars,
                 otherVars>>

\* The promise ai.live.connect returned rejects.  startSession did not await
\* it and attached no handler: nothing runs.
ConnectRejected(s) ==
  /\ sess[s] = "connecting"
  /\ sess' = [sess EXCEPT ![s] = "rejected"]
  /\ cleanupRun' = 0
  /\ UNCHANGED <<uiVars, refVars, playing, clock, nSessions, ctxCreated,
                 resVars, capVars, nScheduled, last, pend, otherVars>>

\* ------------------------------------------------------------------ capture
\* The part of the state the send of a captured frame reads and writes.
SendState == [session |-> sessionPromiseRef, errors |-> sendErrors]

\* A plausible bug: a failed send drops the session, so capture stops sending.
SendFailedDropsSession(r) ==
  [r EXCEPT !.session = NULL,
            !.errors = IF @ < 2 THEN @ + 1 ELSE 2]

\* .catch(err => console.error("Session send error", err))
SendFailed(r) == [r EXCEPT !.errors = IF @ < 2 THEN @ + 1 ELSE 2]

\* The promise of connect() of session t has resolved: its transport opened.
Resolved(t) == sess[t] \in {"open", "errored", "closed"}

\* What becomes of the chunk of a frame: without a session promise in the ref
\* it is dropped; the then-callback waits while the promise is pending, is
\* skipped when it rejected (the catch logs), and otherwise calls
\* sendRealtimeInput, which returns (ok) or throws (the catch logs).
Fate(t, ok) ==
  IF t = NULL THEN "dropped"
  ELSE IF sess[t] = "connecting" THEN "deferred"
  ELSE IF Resolved(t) /\ ok THEN "sent"
  ELSE "failed"

\* processor.onaudioprocess of the pipeline of session s: the frame is
\* encoded, and sent through the session promise the ref holds now.
OnAudioProcess(s, ok) ==
  /\ s \in pipelines
  /\ procDisconnects[s] = 0
  /\ ok \/ (sessionPromiseRef # NULL /\ Resolved(sessionPromiseRef))
  /\ LET fate == Fate(sessionPromiseRef, ok)
         r == IF fate = "failed" THEN SendFailed(SendState) ELSE SendState
     IN /\ chunk' = [of |-> s, to |-> sessionPromiseRef, fate |-> fate]
        /\ sessionPromiseRef' = r.session
        /\ sendErrors' = r.errors
  /\ nFrames' = nFrames + 1
  /\ cleanupRun' = 0
  /\ UNCHANGED <<uiVars, outVars, mediaStreamRef, inputSourceRef,
                 processorRef, nextStartTime, activeSources, playing,
                 envVars, resVars, nScheduled, last, pend, otherVars>>

\* ---------------------------------------------------------- user, unmount
\* The button runs cleanup when isRecording is true.
StopClick ==
  /\ mounted
  /\ isRecording
  /\ cleanup
  /\ UNCHANGED <<mounted, outVars, nextStartTime, envVars, pipelines,
                 nScheduled, last, pend, notification, capVars,
                 otherVars>>

\* The unmount effect runs cleanup.
Unmount ==
  /\ mounted
  /\ mounted' = FALSE
  /\ cleanup
  /\ UNCHANGED <<outVars, nextStartTime, envVars, pipelines,
                 nScheduled, last, pend, notification, capVars,
                 otherVars>>

\* Real time passes; every context's currentTime advances with it.  Time is
\* counted from the first startSession.
Tick ==
  /\ nSessions > 0
  /\ clock' = clock + 1
  /\ cleanupRun' = 0
  /\ UNCHANGED <<uiVars, refVars, playing, nSessions, sess, ctxCreated,
                 resVars, nScheduled, last, pend, capVars,
                 otherVars>>

\* The messages the open transports can deliver: at most maxUnits of them
\* carry audio over a run, each of a duration up to maxDur.
Messages(maxUnits, chunks) ==
  \E s \in Sessions, intr \in BOOLEAN, c \in chunks :
    /\ Decodes(c) => nScheduled < maxUnits
    /\ OnMessage(s, intr, c)

\* Every event of the component: the button, the device prompt, the
\* transport callbacks, the audio engine and the unmount effect.
Events(maxSessions, maxTime, maxUnits, chunks, texts) ==
  \/ nSessions < maxSessions /\ StartSession
  \/ \E s \in Sessions : MicGranted(s)
  \/ \E s \in Sessions, e \in texts : MicDenied(s, e)
  \/ \E s \in Sessions : OnOpen(s)
  \/ Messages(maxUnits, chunks)
  \/ \E u \in activeSources : OnEnded(u)
  \/ \E s \in Sessions : OnClose(s)
  \/ \E s \in Sessions, e \in texts : OnError(s, e)
  \/ \E s \in Sessions : ConnectRejected(s)
  \/ StopClick
  \/ Unmount
  \/ clock < maxTime /\ Tick

\* Playback: sessions that start, open, receive messages, play and are
\* stopped by the button.
PlayEvents(maxSessions, maxTime, maxUnits, chunks) ==
  \/ nSessions < maxSessions /\ StartSession
  \/ \E s \in Sessions : MicGranted(s)
  \/ \E s \in Sessions : OnOpen(s)
  \/ Messages(maxUnits, chunks)
  \/ \E u \in activeSources : OnEnded(u)
  \/ StopClick
  \/ clock < maxTime /\ Tick

\* Playback in which the end of a source and the delivery of its ended event
\* are two steps, so that messages and the stop button can come between them.
EndedEvents(maxSessions, maxTime, maxUnits, chunks) ==
  \/ nSessions < maxSessions /\ StartSession
  \/ \E s \in Sessions : MicGranted(s)
  \/ \E s \in Sessions : OnOpen(s)
  \/ Messages(maxUnits, chunks)
  \/ \E u \in activeSources : PlayedOut(u)
  \/ \E id \in 1..nScheduled : OnEndedEvent(id)
  \/ StopClick
  \/ clock < maxTime /\ Tick

\* Teardown: sessions that start, open, receive messages and are torn down,
\* before any source has played to its end.
TeardownEvents(maxSessions, maxUnits, chunks, texts) ==
  \/ nSessions < maxSessions /\ StartSession
  \/ \E s \in Sessions : MicGranted(s)
  \/ \E s \in Sessions, e \in texts : MicDenied(s, e)
  \/ \E s \in Sessions : OnOpen(s)
  \/ Messages(maxUnits, chunks)
  \/ \E s \in Sessions : OnClose(s)
  \/ \E s \in Sessions, e \in texts : OnError(s, e)
  \/ \E s \in Sessions : ConnectRejected(s)
  \/ StopClick
  \/ Unmount

\* Capture: sessions that start, open, capture frames and are torn down.
CaptureEvents(maxSessions, maxFrames, texts) ==
  \/ nSessions < maxSessions /\ StartSession
  \/ \E s \in Sessions : MicGranted(s)
  \/ \E s \in Sessions, e \in texts : MicDenied(s, e)
  \/ \E s \in Sessions : OnOpen(s)
  \/ \E s \in Sessions, ok \in BOOLEAN :
       nFrames < maxFrames /\ OnAudioProcess(s, ok)
  \/ \E s \in Sessions : OnClose(s)
  \/ \E s \in Sessions, e \in texts : OnError(s, e)
  \/ \E s \in Sessions : ConnectRejected(s)
  \/ StopClick
  \/ Unmount

Next ==
  Events(MaxSessions, MaxTime, MaxUnits, WholeChunks(MaxDur), PlainTexts)
Spec == Init /\ [][Next]_vars

NextPlay ==
  PlayEvents(MaxSessions, MaxTimePlay, MaxUnitsPlay, WholeChunks(MaxDurPlay))
SpecPlay == Init /\ [][NextPlay]_vars

NextSolo ==
  Events(MaxSessionsSolo, MaxTimeSolo, MaxUnitsSolo, WholeChunks(MaxDurSolo),
         PlainTexts)
SpecSolo == Init /\ [][NextSolo]_vars

NextSoloPlay ==
  PlayEvents(MaxSessionsSolo, MaxTimeSolo, MaxUnitsSoloPlay,
             WholeChunks(MaxDurSolo))
SpecSoloPlay == Init /\ [][NextSoloPlay]_vars

\* Playback of a longer sequence of chunks in one session.
NextSoloSeq ==
  PlayEvents(MaxSessionsSolo, MaxTimeSolo, MaxUnitsSoloSeq,
             WholeChunks(MaxDurSoloSeq))
SpecSoloSeq == Init /\ [][NextSoloSeq]_vars

\* Playback of chunks of every kind, malformed ones included, in runs where
\* the output node in the ref can belong to another session's context.
NextDecode == PlayEvents(MaxSessions, MaxTime, MaxUnits, Chunks(MaxDur))
SpecDecode == Init /\ [][NextDecode]_vars

NextSoloEnded ==
  EndedEvents(MaxSessionsSolo, MaxTimeSolo, MaxUnitsSoloPlay,
              WholeChunks(MaxDurSolo))
SpecSoloEnded == Init /\ [][NextSoloEnded]_vars

\* The same for a single source, with the unmount, whose cleanup() can follow
\* the stop button's.
NextSoloStop ==
  \/ EndedEvents(MaxSessionsSolo, MaxTimeSolo, MaxUnitsSolo,
                 WholeChunks(MaxDurSolo))
  \/ Unmount
SpecSoloStop == Init /\ [][NextSoloStop]_vars

NextSoloTeardown ==
  TeardownEvents(MaxSessionsSolo, MaxUnitsSolo, WholeChunks(MaxDurSolo),
                 PlainTexts)
SpecSoloTeardown == Init /\ [][NextSoloTeardown]_vars

NextCapture == CaptureEvents(MaxSessions, MaxFrames, ErrorTexts)
SpecCapture == Init /\ [][NextCapture]_vars

NextSoloCapture ==
  CaptureEvents(MaxSessionsSolo, MaxFramesSolo, ErrorTexts)
SpecSoloCapture == Init /\ [][NextSoloCapture]_vars

\* The same runs under the scheduling the environment guarantees: a pending
\* getUserMedia settles, a connection attempt ends (it opens, reports an
\* error or its promise rejects), and a transport that reported an error
\* closes.  The user and the unmount are not obliged to act.
SpecSoloLive ==
  /\ SpecSoloCapture
  /\ WF_vars(\E s \in Sessions :
               MicGranted(s) \/ \E e \in ErrorTexts : MicDenied(s, e))
  /\ WF_vars(\E s \in Sessions :
               /\ sess[s] = "connecting"
               /\ \/ OnOpen(s)
                  \/ ConnectRejected(s)
                  \/ \E e \in ErrorTexts : OnError(s, e))
  /\ WF_vars(\E s \in Sessions : sess[s] = "errored" /\ OnClose(s))

\* --------------------------------------------------------------- audioUtils
\* The state of the LiveSession component, which the audioUtils functions do
\* not touch.
sessionVars == <<uiVars, refVars, playing, envVars, resVars, capVars, histVars>>

\* A sample of a Float32Array is a binary fraction: the integer x stands for
\* the sample x / SampleDen.
SampleDen == 2^16
Samples == (-MaxSample * SampleDen)..(MaxSample * SampleDen)

Min(a, b) == IF a <= b THEN a ELSE b
Abs(a) == IF a >= 0 THEN a ELSE -a

\* A plausible bug: the sample is not clamped.
NoClamp(x) == x

\* Math.max(-1, Math.min(1, x))
Clamp(x) == Max(-SampleDen, Min(SampleDen, x))

\* The integer part of the product of the sample x and the integer k (the
\* product is exact in double precision; its fraction is dropped when it is
\* stored into the Int16Array).
TimesTrunc(x, k) ==
  LET a == Abs(x)
      m == (a \div SampleDen) * k + ((a % SampleDen) * k) \div SampleDen
  IN IF x < 0 THEN -m ELSE m

\* A plausible bug: both signs are multiplied by 32768, as the comment says.
ScaleSymmetric(s) == TimesTrunc(s, 32768)

\* s < 0 ? s * 0x8000 : s * 0x7FFF
Scale(s) == IF s < 0 THEN TimesTrunc(s, 32768) ELSE TimesTrunc(s, 32767)

\* Storing an integer into an Int16Array keeps it modulo 2^16, as a signed
\* 16-bit value.
ToInt16(i) == ((i + 32768) % 65536) - 32768

\* int16Array[i] = s < 0 ? s * 0x8000 : s * 0x7FFF, s the clamped sample.
Pcm16(x) == ToInt16(Scale(Clamp(x)))

\* new Uint8Array(int16Array.buffer): the two bytes of each word, low byte
\* first.
RECURSIVE Int16Bytes(_)
Int16Bytes(words) ==
  IF words = <<>> THEN <<>>
  ELSE LET u == Head(words) % 65536
       IN <<u % 256, u \div 256>> \o Int16Bytes(Tail(words))

\* btoa of the binary string of the bytes: every three bytes give four
\* 6-bit digits, and 64 stands for the padding character.
RECURSIVE uint8ArrayToBase64(_)
uint8ArrayToBase64(bytes) ==
  IF Len(bytes) = 0 THEN <<>>
  ELSE IF Len(bytes) = 1
    THEN <<bytes[1] \div 4, (bytes[1] % 4) * 16, 64, 64>>
  ELSE IF Len(bytes) = 2
    THEN <<bytes[1] \div 4, (bytes[1] % 4) * 16 + bytes[2] \div 16,
           (bytes[2] % 16) * 4, 64>>
  ELSE <<bytes[1] \div 4, (bytes[1] % 4) * 16 + bytes[2] \div 16,
         (bytes[2] % 16) * 4 + bytes[3] \div 64, bytes[3] % 64>>
       \o uint8ArrayToBase64(SubSeq(bytes, 4, Len(bytes)))

\* float32ToB64PCM(float32Array)
float32ToB64PCM(float32Array) ==
  uint8ArrayToBase64(
    Int16Bytes([i \in 1..Len(float32Array) |-> Pcm16(float32Array[i])]))

\* atob of base64 text, byte by byte: every four digits give three bytes,
\* fewer where the text is padded.
RECURSIVE base64ToUint8Array(_)
base64ToUint8Array(base64) ==
  IF Len(base64) = 0 THEN <<>>
  ELSE LET d == SubSeq(base64, 1, 4)
           b1 == d[1] * 4 + d[2] \div 16
           b2 == (d[2] % 16) * 16 + d[3] \div 4
           b3 == (d[3] % 4) * 64 + d[4]
       IN (IF d[3] = 64 THEN <<b1>>
           ELSE IF d[4] = 64 THEN <<b1, b2>>
           ELSE <<b1, b2, b3>>)
          \o base64ToUint8Array(SubSeq(base64, 5, Len(base64)))

\* new Int16Array(data.buffer, data.byteOffset, data.byteLength / 2): the
\* signed words of the byte pairs, low byte first; a last odd byte is left
\* out.
Int16Words(data) ==
  [i \in 1..(Len(data) \div 2) |->
     ToInt16(data[2 * i - 1] + 256 * data[2 * i])]

\* dataInt16[...] / 32768.0, as a sample.
Float32Of(word) == word * (SampleDen \div 32768)

\* A plausible bug: the words are read channel after channel, not
\* interleaved.
pcmToAudioBufferPlanar(data, numChannels) ==
  LET dataInt16 == Int16Words(data)
      frameCount == Len(dataInt16) \div numChannels
  IN IF frameCount = 0 THEN [thrown |-> TRUE]
     ELSE [thrown |-> FALSE, length |-> frameCount,
           channelData |->
             [channel \in 0..(numChannels - 1) |->
                [i \in 0..(frameCount - 1) |->
                   Float32Of(dataInt16[channel * frameCount + i + 1])]]]

\* pcmToAudioBuffer(data, ctx, sampleRate, numChannels): createBuffer takes
\* the integer part of frameCount and throws when it is 0; channel k of frame
\* i is the word at i * numChannels + k divided by 32768.
pcmToAudioBuffer(data, numChannels) ==
  LET dataInt16 == Int16Words(data)
      frameCount == Len(dataInt16) \div numChannels
  IN IF frameCount = 0 THEN [thrown |-> TRUE]
     ELSE [thrown |-> FALSE, length |-> frameCount,
           channelData |->
             [channel \in 0..(numChannels - 1) |->
                [i \in 0..(frameCount - 1) |->
                   Float32Of(dataInt16[i * numChannels + channel + 1])]]]

\* A call of function fn on arguments arg that has not returned yet.
Request(fn, arg) == [fn |-> fn, arg |-> arg, done |-> FALSE, result |-> <<>>]

\* The call of float32ToB64PCM returns.
Float32ToB64PCMCall ==
  /\ call.fn = "float32ToB64PCM"
  /\ ~call.done
  /\ call' = [call EXCEPT !.done = TRUE,
                          !.result = float32ToB64PCM(call.arg)]
  /\ UNCHANGED <<sessionVars, visVars, ttsVars>>

\* The encoder called on a one-sample array.
InitEncode ==
  /\ LiveSessionInit
  /\ VisualizerInit
  /\ TextToSpeechInit
  /\ call \in {Request("float32ToB64PCM", <<x>>) : x \in Samples}
NextEncode == Float32ToB64PCMCall
SpecEncode == InitEncode /\ [][NextEncode]_vars

\* Byte values that the byte arrays of the calls are made of.
ByteValues == {0, 127, 128, 255}

\* The byte arrays of up to maxLen bytes.
ByteArrays(maxLen) ==
  UNION {[1..n -> ByteValues] : n \in 0..maxLen}

\* The call of pcmToAudioBuffer returns (or throws).
PcmToAudioBufferCall ==
  /\ call.fn = "pcmToAudioBuffer"
  /\ ~call.done
  /\ call' = [call EXCEPT !.done = TRUE,
                          !.result = pcmToAudioBuffer(call.arg.data,
                                                      call.arg.numChannels)]
  /\ UNCHANGED <<sessionVars, visVars, ttsVars>>

\* The decoder called on a byte array, for one channel or more.
InitBuffer ==
  /\ LiveSessionInit
  /\ VisualizerInit
  /\ TextToSpeechInit
  /\ \E b \in ByteArrays(MaxPcmBytes), c \in 1..MaxChannels :
       call = Request("pcmToAudioBuffer", [data |-> b, numChannels |-> c])
NextBuffer == PcmToAudioBufferCall
SpecBuffer == InitBuffer /\ [][NextBuffer]_vars

\* view.setUint16(offset, v, true) and view.setUint32(offset, v, true): the
\* bytes of v, low byte first.
Uint16Bytes(v) == <<v % 256, (v \div 256) % 256>>
Uint32Bytes(v) ==
  <<v % 256, (v \div 256) % 256, (v \div 65536) % 256,
    (v \div 16777216) % 256>>

\* pcmToWav, the 44 bytes written before the samples: "RIFF", 36 +
\* dataLength, "WAVE", "fmt ", 16, 1, numChannels, sampleRate, the byte rate,
\* the block align, 16, "data", dataLength.
WavHeader(dataLength, sampleRate, numChannels) ==
  <<82, 73, 70, 70>> \o Uint32Bytes(36 + dataLength)
  \o <<87, 65, 86, 69>>
  \o <<102, 109, 116, 32>> \o Uint32Bytes(16)
  \o Uint16Bytes(1)
  \o Uint16Bytes(numChannels)
  \o Uint32Bytes(sampleRate)
  \o Uint32Bytes(sampleRate * numChannels * 2)
  \o Uint16Bytes(numChannels * 2)
  \o Uint16Bytes(16)
  \o <<100, 97, 116, 97>> \o Uint32Bytes(dataLength)

\* A plausible bug: the channel count is not passed on; the header says mono.
pcmToWavMono(pcmData, sampleRate, numChannels) ==
  [type |-> "audio/wav",
   bytes |-> WavHeader(Len(pcmData), sampleRate, 1) \o pcmData]

\* A plausible bug: the lengths in the header count samples, not bytes.
pcmToWavSampleCount(pcmData, sampleRate, numChannels) ==
  [type |-> "audio/wav",
   bytes |-> WavHeader(Len(pcmData) \div 2, sampleRate, numChannels)
             \o pcmData]

\* pcmToWav(pcmData, sampleRate, numChannels): the header, then
\* dest.set(pcmData), as a Blob of type audio/wav.
pcmToWav(pcmData, sampleRate, numChannels) ==
  [type |-> "audio/wav",
   bytes |-> WavHeader(Len(pcmData), sampleRate, numChannels) \o pcmData]

\* The call of pcmToWav returns.
PcmToWavCall ==
  /\ call.fn = "pcmToWav"
  /\ ~call.done
  /\ call' = [call EXCEPT !.done = TRUE,
                          !.result = pcmToWav(call.arg.pcmData,
                                              call.arg.sampleRate,
                                              call.arg.numChannels)]
  /\ UNCHANGED <<sessionVars, visVars, ttsVars>>

\* The sample rates the application uses: 16000 for capture, 24000 (the
\* default of pcmToWav) for output.
SampleRates == {16000, 24000}

\* pcmToWav called on a byte array, for a sample rate and a channel count.
InitWav ==
  /\ LiveSessionInit
  /\ VisualizerInit
  /\ TextToSpeechInit
  /\ \E b \in ByteArrays(MaxWavBytes), r \in SampleRates,
          c \in 1..MaxChannels :
       call = Request("pcmToWav", [pcmData |-> b, sampleRate |-> r,
                                   numChannels |-> c])
NextWav == PcmToWavCall
SpecWav == InitWav /\ [][NextWav]_vars

\* --------------------------------------------------------------- Visualizer
\* The props of a render: isActive, audioContext and sourceNode (barColor is
\* the same in every render of one parent).
Props(isActive, audioContext, sourceNode) ==
  [rendered |-> TRUE, isActive |-> isActive, audioContext |-> audioContext,
   sourceNode |-> sourceNode]
AllProps ==
  {Props(a, c, n) : a \in BOOLEAN, c \in {NULL, 1},
                    n \in {NULL} \cup 1..MaxSources}

\* !isActive || !audioContext || !sourceNode is false (the canvas ref is set
\* once the component has rendered).
Active(props) ==
  props.isActive /\ props.audioContext # NULL /\ props.sourceNode # NULL

\* The part of the state the effect and draw() read and write.
VisState ==
  [rafId |-> rafIdRef, pending |-> rafPending, n |-> nRaf,
   analyser |-> analyserRef, canvas |-> canvas]

\* cancelAnimationFrame(id)
Cancelled(pending, id) == pending \ {id}

\* The cleanup the active branch returned: cancel the frame rafIdRef holds,
\* disconnect the analyser.  The inactive branch returns none.
EffectCleanup(v) ==
  IF v.analyser = NULL THEN v
  ELSE [v EXCEPT !.pending = IF v.rafId # NULL THEN Cancelled(@, v.rafId)
                             ELSE @,
                 !.analyser = NULL]

\* A plausible bug: the inactive branch cancels the frame and leaves the
\* canvas as it is.
EffectInactiveKeepsCanvas(v) ==
  [v EXCEPT !.pending = IF v.rafId # NULL THEN Cancelled(@, v.rafId) ELSE @,
            !.rafId = NULL]

\* The effect's inactive branch: cancel the frame rafIdRef holds and null the
\* ref; clearRect on the whole canvas.
EffectInactive(v) ==
  [v EXCEPT !.pending = IF v.rafId # NULL THEN Cancelled(@, v.rafId) ELSE @,
            !.rafId = NULL,
            !.canvas = "clear"]

\* draw(), in a closure whose isActive is true (only the active branch makes
\* one): rafIdRef.current = requestAnimationFrame(draw), then clearRect and
\* the bars.
Draw(v) ==
  [v EXCEPT !.rafId = v.n + 1,
            !.pending = @ \cup {v.n + 1},
            !.n = v.n + 1,
            !.canvas = "bars"]

\* The effect's active branch: create the analyser, connect the source node
\* to it, draw().
EffectActive(v, props) == Draw([v EXCEPT !.analyser = props.sourceNode])

\* The state after the effect has run again for new dependencies: the
\* cleanup of the run before, then the body.
Effect(v, props) ==
  IF Active(props) THEN EffectActive(EffectCleanup(v), props)
  ELSE EffectInactive(EffectCleanup(v))

SetVisState(v) ==
  /\ rafIdRef' = v.rafId
  /\ rafPending' = v.pending
  /\ nRaf' = v.n
  /\ analyserRef' = v.analyser
  /\ canvas' = v.canvas

\* The parent renders the Visualizer for the first time: the canvas exists
\* and shows nothing.
MountVisualizer(props) ==
  /\ visProps = NoProps
  /\ visProps' = props
  /\ canvas' = "clear"
  /\ UNCHANGED <<visDeps, analyserRef, rafIdRef, rafPending, nRaf>>
  /\ UNCHANGED <<sessionVars, utilVars, ttsVars>>

\* The parent renders it again with other props.
Render(props) ==
  /\ visProps # NoProps
  /\ props # visProps
  /\ visProps' = props
  /\ UNCHANGED <<visDeps, analyserRef, rafIdRef, rafPending, nRaf, canvas>>
  /\ UNCHANGED <<sessionVars, utilVars, ttsVars>>

\* React runs the effect after a render whose dependencies [isActive,
\* audioContext, sourceNode, barColor] differ from those of its last run.
RunEffect ==
  /\ visProps # NoProps
  /\ visProps # visDeps
  /\ Active(visProps) => nRaf < MaxRaf
  /\ SetVisState(Effect(VisState, visProps))
  /\ visDeps' = visProps
  /\ UNCHANGED visProps
  /\ UNCHANGED <<sessionVars, utilVars, ttsVars>>

\* The display refreshes: the browser runs the callback of a pending frame.
AnimationFrame(id) ==
  /\ id \in rafPending
  /\ nRaf < MaxRaf
  /\ SetVisState(Draw([VisState EXCEPT !.pending = @ \ {id}]))
  /\ UNCHANGED <<visProps, visDeps>>
  /\ UNCHANGED <<sessionVars, utilVars, ttsVars>>

\* The parent stops rendering the Visualizer: React runs the cleanup of the
\* effect's last run; the canvas and the refs are gone.
UnmountVisualizer ==
  /\ visProps # NoProps
  /\ LET v == EffectCleanup(VisState) IN
     /\ rafPending' = v.pending
     /\ analyserRef' = v.analyser
  /\ visProps' = NoProps
  /\ visDeps' = NoProps
  /\ rafIdRef' = NULL
  /\ canvas' = "none"
  /\ UNCHANGED nRaf
  /\ UNCHANGED <<sessionVars, utilVars, ttsVars>>

NextVisualizer ==
  \/ \E props \in AllProps : MountVisualizer(props)
  \/ \E props \in AllProps : Render(props)
  \/ RunEffect
  \/ \E id \in rafPending : AnimationFrame(id)
  \/ UnmountVisualizer
SpecVisualizer == Init /\ [][NextVisualizer]_vars

\* ------------------------------------------------------------- TextToSpeech
\* The part of the state stopAudio and playAudio read and write.
PlayerState ==
  [isPlaying |-> ttsIsPlaying, source |-> sourceNodeRef,
   playing |-> ttsPlaying, ended |-> ttsEnded, n |-> nSources]

\* stopAudio: stop() the source the ref holds (a source still playing stops
\* and its ended event is queued; on one that has ended stop() does nothing)
\* and null the ref; setIsPlaying(false).
stopAudio(p) ==
  [p EXCEPT !.playing = @ \ {p.source},
            !.ended = IF p.source \in p.playing THEN @ \cup {p.source} ELSE @,
            !.source = NULL,
            !.isPlaying = FALSE]

\* playAudio from the try block on: a new source is stored in the ref, gets
\* onended = () => setIsPlaying(false), and is started; setIsPlaying(true).
StartSource(p) ==
  [p EXCEPT !.source = p.n + 1,
            !.playing = @ \cup {p.n + 1},
            !.n = p.n + 1,
            !.isPlaying = TRUE]

SetPlayerState(p) ==
  /\ ttsIsPlaying' = p.isPlaying
  /\ sourceNodeRef' = p.source
  /\ ttsPlaying' = p.playing
  /\ ttsEnded' = p.ended
  /\ nSources' = p.n

\* The generate button (shown when isPlaying is false, enabled when isLoading
\* is false and there is text) runs handleGenerateAndPlay up to its await of
\* generateContent.
GenerateClick ==
  /\ ~ttsIsPlaying
  /\ ~ttsIsLoading
  /\ nGenerate < MaxGenerate
  /\ nGenerate' = nGenerate + 1
  /\ ttsCalls' = [ttsCalls EXCEPT ![nGenerate + 1] = "requested"]
  /\ ttsIsLoading' = TRUE
  /\ UNCHANGED <<ttsIsPlaying, ttsContext, sourceNodeRef, nSources,
                 ttsPlaying, ttsEnded>>
  /\ UNCHANGED <<sessionVars, utilVars, visVars>>

\* generateContent of call k resolves without audio, or rejects: nothing is
\* played; finally setIsLoading(false).
NoAudio(k) ==
  /\ ttsCalls[k] = "requested"
  /\ ttsCalls' = [ttsCalls EXCEPT ![k] = "done"]
  /\ ttsIsLoading' = FALSE
  /\ UNCHANGED <<ttsIsPlaying, ttsContext, sourceNodeRef, nGenerate,
                 nSources, ttsPlaying, ttsEnded>>
  /\ UNCHANGED <<sessionVars, utilVars, visVars>>

\* generateContent of call k resolves with audio: playAudio runs (it is not
\* awaited) and finally setIsLoading(false).  playAudio calls stopAudio,
\* creates the context if there is none (the browser creates it running or,
\* by its autoplay policy, suspended), and either awaits ctx.resume() or
\* goes on to start the source.
AudioArrives(k, created) ==
  /\ ttsCalls[k] = "requested"
  /\ ttsIsLoading' = FALSE
  /\ ttsContext' = IF ttsContext = "none" THEN created ELSE ttsContext
  /\ IF ttsContext' = "suspended"
     THEN /\ ttsCalls' = [ttsCalls EXCEPT ![k] = "resuming"]
          /\ SetPlayerState(stopAudio(PlayerState))
     ELSE /\ ttsCalls' = [ttsCalls EXCEPT ![k] = "done"]
          /\ SetPlayerState(StartSource(stopAudio(PlayerState)))
  /\ UNCHANGED nGenerate
  /\ UNCHANGED <<sessionVars, utilVars, visVars>>

\* ctx.resume() of call k resolves (the promises resolve in the order of the
\* calls): playAudio goes on to start the source.
Resumed(k) ==
  /\ ttsCalls[k] = "resuming"
  /\ \A j \in 1..(k - 1) : ttsCalls[j] # "resuming"
  /\ ttsContext' = "running"
  /\ ttsCalls' = [ttsCalls EXCEPT ![k] = "done"]
  /\ SetPlayerState(StartSource(PlayerState))
  /\ UNCHANGED <<ttsIsLoading, nGenerate>>
  /\ UNCHANGED <<sessionVars, utilVars, visVars>>

\* The stop button (shown when isPlaying is true) runs stopAudio.
StopAudioClick ==
  /\ ttsIsPlaying
  /\ SetPlayerState(stopAudio(PlayerState))
  /\ UNCHANGED <<ttsIsLoading, ttsContext, ttsCalls, nGenerate>>
  /\ UNCHANGED <<sessionVars, utilVars, visVars>>

\* A source has played to its end: its ended event is queued.
SourcePlayedOut(id) ==
  /\ id \in ttsPlaying
  /\ ttsPlaying' = ttsPlaying \ {id}
  /\ ttsEnded' = ttsEnded \cup {id}
  /\ UNCHANGED <<ttsIsLoading, ttsIsPlaying, ttsContext, sourceNodeRef,
                 ttsCalls, nGenerate, nSources>>
  /\ UNCHANGED <<sessionVars, utilVars, visVars>>

\* source.onended of source id: setIsPlaying(false).
SourceOnEnded(id) ==
  /\ id \in ttsEnded
  /\ ttsEnded' = ttsEnded \ {id}
  /\ ttsIsPlaying' = FALSE
  /\ UNCHANGED <<ttsIsLoading, ttsContext, sourceNodeRef, ttsCalls,
                 nGenerate, nSources, ttsPlaying>>
  /\ UNCHANGED <<sessionVars, utilVars, visVars>>

NextTextToSpeech ==
  \/ GenerateClick
  \/ \E k \in 1..MaxGenerate : NoAudio(k)
  \/ \E k \in 1..MaxGenerate, created \in {"running", "suspended"} :
       AudioArrives(k, created)
  \/ \E k \in 1..MaxGenerate : Resumed(k)
  \/ StopAudioClick
  \/ \E id \in ttsPlaying : SourcePlayedOut(id)
  \/ \E id \in ttsEnded : SourceOnEnded(id)
SpecTextToSpeech == Init /\ [][NextTextToSpeech]_vars

\* ----------------------------------------------------- derived quantities
\* Real time at which a source starts and ends playing: the time of its
\* context plus the real time at which that context was created.
RealStart(u) == ctxCreated[u.ses] + u.start
RealEnd(u) == RealStart(u) + u.dur

\* The device stream that session s acquired has tracks that are not stopped.
StreamLive(s) ==
  /\ sess[s] \in {"connecting", "open", "errored", "closed", "rejected"}
  /\ trackStops[s] = 0

\* The capture pipeline that session s built is still connected.
PipelineConnected(s) ==
  /\ s \in pipelines
  /\ procDisconnects[s] = 0 \/ srcDisconnects[s] = 0

\* The handler of session s schedules a source for chunk c: the chunk decodes
\* and the output node in the ref belongs to the handler's context.
Schedulable(s, c) == Decodes(c) /\ Connects(s, outputAnalyserNodeRef)

\* ------------------------------------------------------------------ claims
\* C1: every schedule operation (the audio branch of onmessage) starts the
\* new source at exactly max(cursor, now), where cursor is the cursor the
\* branch finds and now the clock of the handler's context, and then sets the
\* cursor to that start plus the buffer's duration; so no source is started
\* before the clock or before that cursor.
C1_ScheduleAtMaxCursorNow ==
  [][\A s \in Sessions, intr \in BOOLEAN, c \in WholeChunks(MaxDurSolo) :
       (Schedulable(s, c) /\ OnMessage(s, intr, c)) =>
         LET now == CurrentTime(s)
             cursor == IF intr THEN now ELSE nextStartTime
             d == FrameCount(c.bytes)
         IN /\ last'.id = nScheduled + 1
            /\ last' \in activeSources'
            /\ last'.start = Max(cursor, now)
            /\ last'.start >= now
            /\ last'.start >= cursor
            /\ nextStartTime' = last'.start + d]_vars

\* C1's case: a source was scheduled behind an earlier one, in the future of
\* its context's clock, and the cursor stands at its end.
C1_Witness ==
  /\ last.id >= 2
  /\ last \in activeSources
  /\ last.start > CurrentTime(last.ses)
  /\ nextStartTime = last.start + last.dur

\* C2: no two sources in the active set have overlapping playback intervals
\* [start, start + duration), in any state reachable by start, open, message,
\* clock, completion, close, error and stop events.
C2_NoOverlap ==
  \A u \in activeSources, v \in activeSources :
    u.id # v.id => ~(RealStart(u) < RealEnd(v) /\ RealStart(v) < RealEnd(u))

\* C3: handling an interruption while N >= 0 sources are active stops every
\* one of them, empties the active set and sets the cursor to the clock of the
\* handler's context, before the rest of the handler runs: without audio the
\* handler ends in that state, and with audio the audio branch schedules its
\* source from that state (it is the only active source, starts at the clock,
\* and the cursor ends at the clock plus its duration).
C3_InterruptClearsAndResets ==
  [][\A s \in Sessions, c \in WholeChunks(MaxDurSolo) :
       OnMessage(s, TRUE, c) =>
         LET now == CurrentTime(s) IN
         /\ Ids(activeSources) \cap playing' = {}
         /\ status' = "interrupted"
         /\ ~Schedulable(s, c) => /\ activeSources' = {}
                                  /\ nextStartTime' = now
         /\ Schedulable(s, c) => /\ activeSources' = {last'}
                                 /\ last'.id = nScheduled + 1
                                 /\ last'.start = now
                                 /\ nextStartTime' =
                                      now + FrameCount(c.bytes)]_vars

\* C3's case: in the only session, still recording and before any source
\* could end, an interruption was handled while the two sources scheduled
\* back to back were active.
C3_Witness ==
  /\ nSessions = 1
  /\ isRecording
  /\ clock = 0
  /\ nScheduled = 2
  /\ ~last.intr
  /\ pend.intr
  /\ status = "interrupted"
  /\ activeSources = {}
  /\ playing = {}
  /\ nextStartTime = CurrentTime(1)

\* C4: gapless scheduling: a chunk that arrives no later than the end of the
\* source scheduled before it, with no interruption in between, starts exactly
\* at that source's start plus its duration.  Stated for the runs in which
\* the earlier source is still in the active set when the chunk arrives.
C4_Gapless ==
  [][\A s \in Sessions, c \in Chunks(MaxDurPlay) :
       (/\ OnMessage(s, FALSE, c)
        /\ Schedulable(s, c)
        /\ last.id > 0
        /\ last \in activeSources
        /\ ~pend.intr
        /\ clock <= RealEnd(last))
       => RealStart(last') = RealStart(last) + last.dur]_vars

\* C5: late arrival: a chunk that arrives after the source scheduled before it
\* has ended starts at its arrival time, strictly later than that source's end.
C5_LateArrival ==
  [][\A s \in Sessions, intr \in BOOLEAN, c \in Chunks(MaxDurPlay) :
       (/\ OnMessage(s, intr, c)
        /\ Schedulable(s, c)
        /\ last.id > 0
        /\ clock > RealEnd(last))
       => /\ last'.start = CurrentTime(s)
          /\ RealStart(last') > RealEnd(last)]_vars

\* C6 as stated: the start times assigned to successive sources of a session
\* never decrease, over every sequence of audio messages, interruptions and
\* clock advances.
C6_MonotoneStarts ==
  [][\A s \in Sessions, intr \in BOOLEAN, c \in Chunks(MaxDurPlay) :
       (/\ OnMessage(s, intr, c)
        /\ Schedulable(s, c)
        /\ last.id > 0
        /\ last.ses = s)
       => last'.start >= last.start]_vars

\* C6 amended: sources are scheduled in arrival order, and a source starts no
\* earlier than the source scheduled before it whenever the cursor has not
\* been reset (by an interruption or by startSession) between the two
\* schedule operations.
C6_MonotoneBetweenResets ==
  [][\A s \in Sessions, intr \in BOOLEAN, c \in Chunks(MaxDurPlay) :
       (OnMessage(s, intr, c) /\ Schedulable(s, c) /\ last.id > 0)
       => /\ last'.id = last.id + 1
          /\ (~intr /\ ~pend.intr /\ ~pend.restart)
               => last'.start >= last.start]_vars

\* C6's case: two sources scheduled one after the other with no cursor reset
\* in between are both active, the later starting at or after the earlier.
C6_Witness ==
  /\ last.id >= 2
  /\ ~last.intr
  /\ ~last.restart
  /\ last \in activeSources
  /\ \E u \in activeSources : u.id = last.id - 1 /\ u.start <= last.start

\* C7: once a transport close or error event has been handled, no capture
\* pipeline is connected, the active set is empty and nothing plays, no
\* acquired device stream has live tracks, and the session is not recording.
C7_TeardownOnCloseOrError ==
  [][\A s \in Sessions :
       (OnClose(s) \/ \E e \in ErrorTexts : OnError(s, e)) =>
         /\ \A k \in Sessions : ~PipelineConnected(k)'
         /\ activeSources' = {}
         /\ playing' = {}
         /\ \A k \in Sessions : ~StreamLive(k)'
         /\ ~isRecording']_vars

\* C8: stop is idempotent: a cleanup that directly follows a cleanup changes
\* nothing that cleanup touches, and no cleanup stops a stream's tracks or
\* disconnects a processor or an input source a second time: what the refs
\* held is released exactly once.
C8_StopIdempotent ==
  [][/\ (cleanupRun >= 1 /\ cleanupRun' = 2) => RefState' = RefState
     /\ cleanupRun' >= 1 =>
          /\ \A s \in Sessions : /\ trackStops'[s] <= 1
                                 /\ procDisconnects'[s] <= 1
                                 /\ srcDisconnects'[s] <= 1
          /\ mediaStreamRef # NULL => trackStops'[mediaStreamRef] = 1
          /\ processorRef # NULL => procDisconnects'[processorRef] = 1
          /\ inputSourceRef # NULL => srcDisconnects'[inputSourceRef] = 1
          /\ CleanupOf(RefState') = RefState']_vars

\* C8's case: the only session was streaming, the stop button ran cleanup
\* and the unmount effect ran it again right after; the stream, the processor
\* and the input source have each been released once.
C8_Witness ==
  /\ cleanupRun = 2
  /\ nSessions = 1
  /\ sess[1] = "open"
  /\ ~mounted
  /\ trackStops[1] = 1
  /\ procDisconnects[1] = 1
  /\ srcDisconnects[1] = 1

\* C9: every acquired device stream is released exactly once: never twice,
\* and not left unreleased once the session that acquired it was torn down by
\* a transport close or error.
C9_StreamReleasedOnce ==
  \A s \in Sessions :
    /\ trackStops[s] <= 1
    /\ sess[s] \in {"closed", "errored"} => ~StreamLive(s)

\* C10: at most one session start is in flight: while one startSession awaits
\* the device grant or the transport's opening, no second one does.
C10_SingleStartInFlight ==
  Cardinality({s \in Sessions : sess[s] \in {"awaitingMic", "connecting"}}) <= 1

\* C11: in every reachable state at most one capture pipeline is connected,
\* and the pipeline that is connected reads from the device stream the
\* session holds (the one in mediaStreamRef).  Stated for the states in which
\* the component is mounted.
C11_OneCapturePipeline ==
  mounted =>
    /\ Cardinality({s \in Sessions : PipelineConnected(s)}) <= 1
    /\ \A s \in Sessions : PipelineConnected(s) => mediaStreamRef = s

\* C12: once the handler of a message that signals an interruption has
\* returned, the status shown is the one of a streaming session again.
C12_InterruptedIsMomentary ==
  [][\A s \in Sessions, c \in WholeChunks(MaxDurSolo) :
       OnMessage(s, TRUE, c) => status' = "connected"]_vars

\* C13: a capture pipeline is built only by onopen, no chunk is sent to a
\* transport that has not opened, and every frame a pipeline captures, its
\* transport having opened, is encoded and pushed to that transport (a push
\* that throws is still a push).  Stated for the steps of the mounted
\* component.
C13_CaptureOnlyAfterOpen ==
  [][mounted =>
       /\ \A s \in Sessions :
            (s \in pipelines' /\ s \notin pipelines) => OnOpen(s)
       /\ \A s \in Sessions, ok \in BOOLEAN :
            OnAudioProcess(s, ok) =>
              /\ Resolved(s)
              /\ chunk'.fate = "sent" => Resolved(chunk'.to)
              /\ chunk'.to = s
              /\ chunk'.fate \in {"sent", "failed"}]_vars

\* C14: the send of a captured chunk that fails changes nothing of the
\* session or of the pipeline (the failure is logged, nothing else), and the
\* next frame of the pipeline is encoded and sent as before.
C14_FailedSendContained ==
  [][\A s \in Sessions, ok \in BOOLEAN :
       /\ (OnAudioProcess(s, ok) /\ chunk'.fate = "failed") =>
            /\ UNCHANGED <<uiVars, refVars, playing, envVars, resVars>>
            /\ PipelineConnected(s)'
            /\ sendErrors' >= 1
       /\ (/\ OnAudioProcess(s, TRUE)
           /\ chunk.fate = "failed"
           /\ chunk.of = s
           /\ sessionPromiseRef = chunk.to
           /\ Resolved(chunk.to)) =>
            /\ chunk'.fate = "sent"
            /\ chunk'.to = chunk.to]_vars

\* C14's case: in a streaming session a send has failed and the frame
\* captured after it has been sent.
C14_Witness ==
  /\ isRecording
  /\ sendErrors >= 1
  /\ nFrames >= 2
  /\ chunk.fate = "sent"
  /\ chunk.to = sessionPromiseRef
  /\ PipelineConnected(chunk.of)

\* Session s has created its audio contexts and none of them was closed.
ContextsOpen(s) == sess[s] # "unused" /\ ctxCloses[s] = 0

\* C15: after a teardown (transport close, transport error or stop) no audio
\* context that a session created remains open.
C15_ContextsTornDown ==
  [][(\/ \E s \in Sessions : OnClose(s)
      \/ \E s \in Sessions, e \in ErrorTexts : OnError(s, e)
      \/ StopClick)
     => \A s \in Sessions : ~ContextsOpen(s)']_vars

\* The message shown classifies the error as rate limited.
RateLimited(msg) == msg \in {"liveQuota", "startQuota"}

\* C16: an error is classified as rate limited if and only if its text
\* contains "429" or "quota", on the transport's onerror path and on the
\* start-up failure path alike.
C16_ErrorClassification ==
  [][\A s \in Sessions, e \in ErrorTexts :
       /\ OnError(s, e) =>
            (RateLimited(notification') <=> (e.has429 \/ e.hasQuota))
       /\ MicDenied(s, e) =>
            (RateLimited(notification') <=> (e.has429 \/ e.hasQuota))]_vars

\* C17: when getUserMedia fails for a start, that start never connects, the
\* catch leaves no pipeline connected, no device stream in the ref and the
\* session not recording, and no acquisition completes (followed by its
\* connection attempt) while the start that failed is the latest one the
\* user has made.
C17_DeviceDeniedNoRetry ==
  [][/\ \A s \in Sessions, e \in ErrorTexts :
          MicDenied(s, e) =>
            /\ \A k \in Sessions : ~PipelineConnected(k)'
            /\ mediaStreamRef' = NULL
            /\ ~isRecording'
     /\ \A s \in Sessions : sess[s] = "denied" => sess'[s] = "denied"
     /\ \A k \in Sessions :
          MicGranted(k) => ~(nSessions > 0 /\ sess[nSessions] = "denied")]_vars

\* The failure of the transport of session s has been followed by the
\* teardown: its device stream is released, its pipeline disconnected, and
\* the session is not recording.
TornDown(s) == ~StreamLive(s) /\ ~PipelineConnected(s) /\ ~isRecording

\* C18: every transport failure, reported by onerror or met while the
\* connection is being established, is eventually followed by the teardown.
C18_FailureLeadsToTeardown ==
  \A s \in Sessions : (sess[s] \in {"errored", "rejected"}) ~> TornDown(s)

\* C19: a chunk whose decoding or scheduling throws schedules no source and
\* leaves the cursor and the active set as they were when its processing
\* began (after the interrupted branch, if the message also signals an
\* interruption); the session stays open and recording with its capture
\* pipeline untouched, and a later chunk is scheduled as usual at
\* max(cursor, now).
C19_ChunkFailureContained ==
  [][\A s \in Sessions, intr \in BOOLEAN, c \in Chunks(MaxDur) :
       /\ (/\ sess[s] = "open"
           /\ c.kind # "none"
           /\ ~Schedulable(s, c)
           /\ OnMessage(s, intr, c)) =>
            /\ nScheduled' = nScheduled
            /\ last' = last
            /\ ~intr => UNCHANGED <<nextStartTime, activeSources, playing,
                                    status>>
            /\ intr => /\ nextStartTime' = CurrentTime(s)
                       /\ activeSources' = {}
            /\ sess'[s] = "open"
            /\ UNCHANGED <<isRecording, mediaStreamRef, inputSourceRef,
                           processorRef, sessionPromiseRef, resVars>>
       /\ (/\ sess[s] = "open"
           /\ pend.failed
           /\ Schedulable(s, c)
           /\ OnMessage(s, intr, c)) =>
            /\ last'.id = nScheduled + 1
            /\ last' \in activeSources'
            /\ last'.start =
                 Max(IF intr THEN CurrentTime(s) ELSE nextStartTime,
                     CurrentTime(s))
            /\ nextStartTime' = last'.start + FrameCount(c.bytes)]_vars

\* C19's case: in a streaming session a chunk has thrown and the chunk after
\* it has been scheduled: its source is active and the cursor at its end.
C19_Witness ==
  /\ isRecording
  /\ last.failed
  /\ last \in activeSources
  /\ nextStartTime = last.start + last.dur
  /\ PipelineConnected(last.ses)

\* C20: a chunk of an odd number of PCM bytes is rejected: no source is
\* scheduled for it (no buffer is made from any of its bytes), and the
\* session stays open.
C20_OddLengthRejected ==
  [][\A s \in Sessions, intr \in BOOLEAN, k \in 0..MaxDur :
       OnMessage(s, intr, Pcm(2 * k + 1)) =>
         /\ nScheduled' = nScheduled
         /\ activeSources' \subseteq activeSources
         /\ sess'[s] = "open"]_vars

\* The sample that decoding yields for the one-sample text b64:
\* base64ToUint8Array, then frame 0 of channel 0 of pcmToAudioBuffer.
DecodedSample(b64) ==
  pcmToAudioBuffer(base64ToUint8Array(b64), 1).channelData[0][0]

\* 1/32768 as a sample.
Lsb == SampleDen \div 32768

C22_Clamping ==
  (call.fn = "float32ToB64PCM" /\ call.done) =>
    /\ call.arg[1] > SampleDen =>
         call.result = float32ToB64PCM(<<SampleDen>>)
    /\ call.arg[1] < -SampleDen =>
         call.result = float32ToB64PCM(<<-SampleDen>>)

\* C22's case: the sample 2.0 has been encoded to the text of the bytes FF 7F
\* (the word 32767).
C22_Witness ==
  /\ call.fn = "float32ToB64PCM"
  /\ call.done
  /\ call.arg = <<2 * SampleDen>>
  /\ call.result = <<63, 55, 60, 64>>

\* The word that the encoded text of one sample holds.
EncodedWord(b64) == Int16Words(base64ToUint8Array(b64))[1]

\* The integers nearest to the product of the sample x and the integer k
\* (two of them when the product lies half way).
Nearest(x, k) ==
  LET a == Abs(x)
      m == (a \div SampleDen) * k + ((a % SampleDen) * k) \div SampleDen
      r == ((a % SampleDen) * k) % SampleDen
      up == IF 2 * r > SampleDen THEN {m + 1}
            ELSE IF 2 * r = SampleDen THEN {m, m + 1}
            ELSE {m}
  IN {IF x < 0 THEN -v ELSE v : v \in up}

\* C23: encode maps each sample to the integer nearest to the clamped sample
\* multiplied by 32768 when negative and by 32767 when non-negative; the
\* result lies in [-32768, 32767], and encode(-1) = -32768, encode(0) = 0,
\* encode(1) = 32767.
C23_NearestInteger ==
  (call.fn = "float32ToB64PCM" /\ call.done) =>
    LET s == Max(-SampleDen, Min(SampleDen, call.arg[1]))
        w == EncodedWord(call.result)
    IN /\ w \in Nearest(s, IF s < 0 THEN 32768 ELSE 32767)
       /\ w \in -32768..32767
       /\ s = -SampleDen => w = -32768
       /\ s = 0 => w = 0
       /\ s = SampleDen => w = 32767

\* The unsigned number that n bytes of a byte sequence hold from the 0-based
\* offset on, low byte first.
RECURSIVE LittleEndian(_, _, _)
LittleEndian(bytes, offset, n) ==
  IF n = 0 THEN 0
  ELSE bytes[offset + 1] + 256 * LittleEndian(bytes, offset + 1, n - 1)

\* C24: for every PCM chunk, the empty one included, the container has
\* exactly 44 + len(chunk) bytes, and its header declares format tag 1 (PCM),
\* the given channel count, the given sample rate and 16 bits per sample,
\* whatever the chunk holds.
C24_WavHeaderFields ==
  (call.fn = "pcmToWav" /\ call.done) =>
    LET wav == call.result.bytes IN
    /\ Len(wav) = 44 + Len(call.arg.pcmData)
    /\ LittleEndian(wav, 20, 2) = 1
    /\ LittleEndian(wav, 22, 2) = call.arg.numChannels
    /\ LittleEndian(wav, 24, 4) = call.arg.sampleRate
    /\ LittleEndian(wav, 34, 2) = 16

\* C24's case: the empty chunk has been wrapped for two channels at 24000 Hz:
\* the container is the 44-byte header, which declares two channels.
C24_Witness ==
  /\ call.fn = "pcmToWav"
  /\ call.done
  /\ call.arg = [pcmData |-> <<>>, sampleRate |-> 24000, numChannels |-> 2]
  /\ Len(call.result.bytes) = 44
  /\ LittleEndian(call.result.bytes, 22, 2) = 2

\* C25: the header is consistent: byte rate = sampleRate * channels * 2,
\* block align = channels * 2, declared data size = len(chunk), declared
\* outer chunk size = 36 + len(chunk), and the bytes after the 44-byte header
\* are the chunk, unchanged and in order.
C25_WavHeaderConsistent ==
  (call.fn = "pcmToWav" /\ call.done) =>
    LET wav == call.result.bytes
        chunkBytes == call.arg.pcmData
    IN /\ LittleEndian(wav, 28, 4) =
            call.arg.sampleRate * call.arg.numChannels * 2
       /\ LittleEndian(wav, 32, 2) = call.arg.numChannels * 2
       /\ LittleEndian(wav, 40, 4) = Len(chunkBytes)
       /\ LittleEndian(wav, 4, 4) = 36 + Len(chunkBytes)
       /\ SubSeq(wav, 45, Len(wav)) = chunkBytes

\* C25's case: a chunk of three different bytes has been wrapped, and they
\* follow the header in order.
C25_Witness ==
  /\ call.fn = "pcmToWav"
  /\ call.done
  /\ call.arg.pcmData = <<127, 128, 255>>
  /\ LittleEndian(call.result.bytes, 40, 4) = 3
  /\ SubSeq(call.result.bytes, 45, 47) = <<127, 128, 255>>

\* C26: decoding a chunk for c channels yields frame count = (number of
\* 16-bit words) / c (its integer part) and, for every channel k and frame i,
\* the little-endian signed 16-bit word at index i * c + k divided by 32768;
\* every decoded sample lies in [-1, 1).
C26_DecodeDeinterleaves ==
  (call.fn = "pcmToAudioBuffer" /\ call.done /\ ~call.result.thrown) =>
    LET data == call.arg.data
        c == call.arg.numChannels
        nWords == Len(data) \div 2
        Word(j) == LET u == LittleEndian(data, 2 * j, 2)
                   IN IF u >= 32768 THEN u - 65536 ELSE u
        buffer == call.result
    IN /\ buffer.length = nWords \div c
       /\ DOMAIN buffer.channelData = 0..(c - 1)
       /\ \A k \in 0..(c - 1) :
            /\ DOMAIN buffer.channelData[k] = 0..(buffer.length - 1)
            /\ \A i \in 0..(buffer.length - 1) :
                 LET v == buffer.channelData[k][i] IN
                 /\ v * 32768 = Word(i * c + k) * SampleDen
                 /\ v >= -SampleDen
                 /\ v < SampleDen

\* C26's case: the words 32767, -32768, -1, 127 have been decoded as two
\* frames of two channels: channel 0 holds 32767/32768 and -1/32768, channel
\* 1 holds -1 and 127/32768.
C26_Witness ==
  /\ call.fn = "pcmToAudioBuffer"
  /\ call.done
  /\ call.arg = [data |-> <<255, 127, 0, 128, 255, 255, 127, 0>>,
                 numChannels |-> 2]
  /\ call.result.length = 2
  /\ call.result.channelData[0] = [i \in 0..1 |-> IF i = 0 THEN 32767 * Lsb ELSE -Lsb]
  /\ call.result.channelData[1] =
       [i \in 0..1 |-> IF i = 0 THEN -SampleDen ELSE 127 * Lsb]

\* No session exists: none was started, or every one started has ended (the
\* device was denied, the connection was rejected, or the transport closed or
\* reported an error), and the component shows it.
Idle ==
  /\ status = "ready"
  /\ ~isRecording
  /\ \A s \in Sessions : sess[s] \notin {"awaitingMic", "connecting", "open"}

\* C27: a cleanup() that runs while the session is Idle is a no-op: the
\* status, the recording flag, the cursor, the active set and every resource
\* handle (the refs and what they released) are the same after it as before.
C27_StopInIdleNoOp ==
  [][(Idle /\ cleanupRun' >= 1) =>
       /\ UNCHANGED <<status, isRecording, nextStartTime, activeSources,
                      playing>>
       /\ UNCHANGED <<audioContextRef, outputAnalyserNodeRef, mediaStreamRef,
                      inputSourceRef, processorRef, sessionPromiseRef>>
       /\ UNCHANGED resVars]_vars

\* C27's case: cleanup() has run (by the unmount effect) before any session
\* was started, and the state is the initial one but for the unmount.
C27_Witness ==
  /\ nSessions = 0
  /\ cleanupRun = 1
  /\ ~mounted
  /\ status = "ready"
  /\ activeSources = {}

\* C28: the Visualizer renders a frame only while the effect in force ran
\* for an active Visualizer with a context and a source; once the effect has
\* run for a deactivated Visualizer or one without source, no animation
\* frame is pending, the ref holds none and the canvas is cleared, so that
\* no frame is rendered until it is activated again.
C28_RendersOnlyWhileActive ==
  [][/\ nRaf' > nRaf => Active(visDeps')
     /\ (visDeps'.rendered /\ ~Active(visDeps')) =>
          /\ rafPending' = {}
          /\ rafIdRef' = NULL
          /\ canvas' = "clear"]_vars

\* C28's case: the Visualizer has rendered frames while active, then was
\* deactivated with its source still attached, and the effect has run: the
\* pending frame is cancelled and the canvas cleared.
C28_Witness ==
  /\ nRaf >= 2
  /\ visDeps.rendered
  /\ ~visDeps.isActive
  /\ visDeps.sourceNode # NULL
  /\ rafPending = {}
  /\ canvas = "clear"

\* C29: when the ended event of a source is handled, exactly that source
\* leaves the active set, and the cursor, the other active sources and
\* everything else stay as they are; for a source that an interruption or
\* cleanup() already removed, nothing changes.
C29_EndedRemovesThatUnit ==
  [][\A id \in 1..nScheduled :
       OnEndedEvent(id) =>
         /\ activeSources' \subseteq activeSources
         /\ Ids(activeSources') = Ids(activeSources) \ {id}
         /\ UNCHANGED <<nextStartTime, playing, status, isRecording, last>>
         /\ ((pend.intr /\ id <= last.id) \/ cleanupRun >= 1) =>
              UNCHANGED activeSources]_vars

\* C29's case: in the only session, never interrupted or stopped, the first
\* of two sources scheduled back to back has played out and its ended event
\* has removed it; the second is still in the set and the cursor is at its
\* end.
C29_Witness ==
  /\ nSessions = 1
  /\ isRecording
  /\ status = "connected"
  /\ nScheduled = 2
  /\ activeSources = {last}
  /\ last.id = 2
  /\ playing = {2}
  /\ nextStartTime = last.start + last.dur

\* C30: an interruption or a cleanup() that finds sources in the set that
\* have already played out, or refs that are already released, ends as it
\* does otherwise: the set is empty and nothing plays, the handler has not
\* thrown, the cursor is at the clock after an interruption, and after
\* cleanup() the capture refs are null, with nothing released that the refs
\* no longer held.
C30_StopOfFinishedIsBenign ==
  [][/\ \A s \in Sessions :
          OnMessage(s, TRUE, NoChunk) =>
            /\ activeSources' = {}
            /\ playing' = {}
            /\ nextStartTime' = CurrentTime(s)
            /\ pend'.failed = pend.failed
     /\ cleanupRun' >= 1 =>
          /\ activeSources' = {}
          /\ playing' = {}
          /\ mediaStreamRef' = NULL
          /\ processorRef' = NULL
          /\ inputSourceRef' = NULL
          /\ mediaStreamRef = NULL => trackStops' = trackStops
          /\ processorRef = NULL => procDisconnects' = procDisconnects
          /\ inputSourceRef = NULL => srcDisconnects' = srcDisconnects]_vars

\* C30's case: the only source of the only session had played out (at time
\* 1) when an interruption was handled: the cursor was set to that time and
\* the set is empty.
C30_Witness ==
  /\ nSessions = 1
  /\ nScheduled = 1
  /\ last.start + last.dur = 1
  /\ pend.intr
  /\ status = "interrupted"
  /\ nextStartTime = 1
  /\ activeSources = {}
  /\ playing = {}

\* C31: when one message both signals an interruption and carries audio that
\* decodes and connects, the interruption is applied first and the audio
\* second: after the handler the active set holds exactly the source of that
\* message, which is the only one playing, it starts at the clock of the
\* handler's context, and the cursor is that clock plus its duration.
C31_InterruptThenAudio ==
  [][\A s \in Sessions, c \in WholeChunks(MaxDurSolo) :
       (Schedulable(s, c) /\ OnMessage(s, TRUE, c)) =>
         /\ activeSources' = {last'}
         /\ playing' = {last'.id}
         /\ last'.id = nScheduled + 1
         /\ last'.intr
         /\ last'.dur = FrameCount(c.bytes)
         /\ last'.start = CurrentTime(s)
         /\ nextStartTime' = CurrentTime(s) + last'.dur]_vars

\* C31's case: before any source could end, a source was playing when a
\* message with both an interruption and audio was handled: the earlier source is gone, the source of that
\* message is the only active one and the cursor is at its end.
C31_Witness ==
  /\ nSessions = 1
  /\ clock = 0
  /\ nScheduled = 2
  /\ last.id = 2
  /\ last.intr
  /\ status = "interrupted"
  /\ activeSources = {last}
  /\ playing = {2}
  /\ nextStartTime = last.start + last.dur

\* cleanup() has run since the transport of session s opened, and no
\* startSession has been made since: isRecording, which onopen set, is false
\* again, and no start awaits the device or the transport.
StoppedSince(s) ==
  /\ sess[s] = "open"
  /\ ~isRecording
  /\ \A t \in Sessions : sess[t] \notin {"awaitingMic", "connecting"}

\* C32: after a stop (or any teardown) and until the next start, no source is
\* scheduled: a message that arrives then neither adds a source to the active
\* set nor moves the cursor.
C32_NoUnitAfterTeardown ==
  [][\A s \in Sessions, intr \in BOOLEAN, c \in WholeChunks(MaxDurSolo) :
       (StoppedSince(s) /\ OnMessage(s, intr, c)) =>
         /\ activeSources' \subseteq activeSources
         /\ nextStartTime' = nextStartTime]_vars

\* C33: a teardown that happens while startSession awaits the device or the
\* transport is final: when the component was unmounted meanwhile (its
\* cleanup() ran while session s was suspended), the resumption of
\* startSession and the opening of the transport leave no device stream held
\* or live, no capture pipeline connected and the session not recording.
C33_TeardownDuringStartIsFinal ==
  [][\A s \in Sessions :
       (~mounted /\ (MicGranted(s) \/ OnOpen(s))) =>
         /\ mediaStreamRef' = NULL
         /\ ~StreamLive(s)'
         /\ ~PipelineConnected(s)'
         /\ ~isRecording']_vars

\* C34: in every reachable state, every source in the active set ends (start
\* + duration) no later than the cursor.
C34_ActiveEndsBeforeCursor ==
  \A u \in activeSources : u.start + u.dur <= nextStartTime

\* A teardown has happened and no startSession since: the component is
\* unmounted (its button is gone), or the session is not recording and no
\* startSession is suspended or has ended in a rejected connection.
AfterTeardown ==
  \/ ~mounted
  \/ /\ ~isRecording
     /\ \A t \in Sessions :
          sess[t] \notin {"awaitingMic", "connecting", "rejected"}

\* C35: after a teardown and before the next start, a capture callback that
\* fires sends no chunk to the transport.
C35_NoSendAfterTeardown ==
  [][\A s \in Sessions, ok \in BOOLEAN :
       (AfterTeardown /\ OnAudioProcess(s, ok)) =>
         chunk'.fate # "sent"]_vars

\* C36: in the text-to-speech player at most one source plays at any time,
\* and the ended event of a source never sets isPlaying to false while
\* another source is playing.
C36_SingleSourceAndFlag ==
  [][/\ Cardinality(ttsPlaying') <= 1
     /\ \A id \in ttsEnded :
          (SourceOnEnded(id) /\ ttsPlaying' # {}) =>
            ttsIsPlaying' = ttsIsPlaying]_vars

====
